---------------------------- MODULE Spec2Model ----------------------------
(***************************************************************************)
(* A model of src/src/App.tsx: the photo gallery component App, its React  *)
(* state, its effects, the response cache, the debounce timer and the      *)
(* persisted search history.                                               *)
(*                                                                         *)
(* Strings are sequences of one-character strings, so that trim, the       *)
(* falsiness of the empty string and the JSON encoding are computed.       *)
(* A value that may be null/undefined is <<>> (absent) or <<v>> (present). *)
(*                                                                         *)
(* React's scheduling: an event handler runs to completion, then the       *)
(* component renders and the effects whose dependencies changed run in     *)
(* declaration order with the values of that render; state they set causes *)
(* another render.  One action is one event with all renders and effects   *)
(* it causes (Settle).                                                     *)
(***************************************************************************)
EXTENDS Integers, Sequences, FiniteSets, Bags, TLC

VARIABLES
    photos,          \* useState<Photo[]>([])                      line 23
    page,            \* useState(1)                                line 24
    loading,         \* useState(false)                            line 25
    mode,            \* useState("popular")                        line 26
    query,           \* useState("")                               line 27
    debouncedQuery,  \* useState("")                               line 28
    error,           \* useState<string | null>(null)              line 29
    history,         \* useState<string[]>([])                     line 31
    cache,           \* cacheRef.current                           line 33
    storage,         \* localStorage["search-history"]             lines 43, 48
    timers,          \* pending setTimeout handlers (captured query) line 36
    inflight,        \* fetches awaiting their response (a bag)    line 77
    observerLoading, \* `loading` captured by the observer callback line 117
    mounted,         \* whether the mount effects have run
    accessKey,       \* whether ACCESS_KEY is set                  line 20
    inputs,          \* the strings the user types in this run
    maxInflight,     \* how many requests are outstanding at once in this run
    last,            \* the last event: its type and its getPhotos calls, in order
    failedPages      \* pages of the current key whose request failed since
                     \* mode or debouncedQuery last changed

vars == <<photos, page, loading, mode, query, debouncedQuery, error, history,
          cache, storage, timers, inflight, observerLoading, mounted,
          accessKey, inputs, maxInflight, last, failedPages>>

-----------------------------------------------------------------------------
(* Bounds of the model. *)
MaxPage == 2
MaxInflight == 2
NarrowInflight == 1
ServerPages == 2

(* Program constants. *)
HistoryLimit == 5

-----------------------------------------------------------------------------
(* Strings. *)
None == <<>>
Some(x) == <<x>>

EmptyStr == <<>>
POPULAR == <<"p", "o", "p", "u", "l", "a", "r">>
LATEST == <<"l", "a", "t", "e", "s", "t">>
StrA == <<"a">>
StrB == <<"b">>
StrQuote == <<"c", "\"", "\\">>
StrD == <<"d">>
StrE == <<"e">>
StrG == <<"g">>
StrNoMatch == <<"z">>
StrSpace == <<" ">>
StrASpace == <<"a", " ">>

Modes == {POPULAR, LATEST}

IsSpace(c) == c = " "

RECURSIVE TrimStart(_)
TrimStart(s) ==
    IF s = <<>> THEN s
    ELSE IF IsSpace(Head(s)) THEN TrimStart(Tail(s)) ELSE s

RECURSIVE TrimEnd(_)
TrimEnd(s) ==
    IF s = <<>> THEN s
    ELSE IF IsSpace(s[Len(s)]) THEN TrimEnd(SubSeq(s, 1, Len(s) - 1)) ELSE s

Trim(s) == TrimEnd(TrimStart(s))

(* JavaScript truthiness of a string: the empty string is falsy. *)
Truthy(s) == s # EmptyStr

(* a || b on strings. *)
OrElse(a, b) == IF Truthy(a) THEN a ELSE b

-----------------------------------------------------------------------------
(* JSON.stringify and JSON.parse on arrays of strings (lines 44, 48). *)
EscapeChar(c) ==
    IF c = "\"" THEN <<"\\", "\"">>
    ELSE IF c = "\\" THEN <<"\\", "\\">>
    ELSE <<c>>

RECURSIVE EscapeStr(_)
EscapeStr(s) ==
    IF s = <<>> THEN <<>> ELSE EscapeChar(Head(s)) \o EscapeStr(Tail(s))

QuoteStr(s) == <<"\"">> \o EscapeStr(s) \o <<"\"">>

RECURSIVE JoinItems(_)
JoinItems(h) ==
    IF h = <<>> THEN <<>>
    ELSE IF Len(h) = 1 THEN QuoteStr(h[1])
    ELSE QuoteStr(h[1]) \o <<",">> \o JoinItems(Tail(h))

JSONstringify(h) == <<"[">> \o JoinItems(h) \o <<"]">>

(* The string literal whose opening quote is before position i. *)
RECURSIVE ParseString(_, _, _)
ParseString(t, i, acc) ==
    IF t[i] = "\"" THEN [val |-> acc, next |-> i + 1]
    ELSE IF t[i] = "\\" THEN ParseString(t, i + 2, Append(acc, t[i + 1]))
    ELSE ParseString(t, i + 1, Append(acc, t[i]))

RECURSIVE ParseItems(_, _, _)
ParseItems(t, i, acc) ==
    IF t[i] = "]" THEN acc
    ELSE IF t[i] = "," THEN ParseItems(t, i + 1, acc)
    ELSE LET r == ParseString(t, i + 1, <<>>)
         IN ParseItems(t, r.next, Append(acc, r.val))

JSONparse(t) == ParseItems(t, 2, <<>>)

-----------------------------------------------------------------------------
(* The image API, as the component sees it. *)

(* Lines 70-75: the search endpoint for a non-empty debounced query, else  *)
(* the feed ordered by mode.                                               *)
Url(dq, m, pageNum) ==
    IF Truthy(dq)
    THEN [endpoint |-> "search/photos", term |-> dq, page |-> pageNum]
    ELSE [endpoint |-> "photos", term |-> m, page |-> pageNum]

(* What the server holds for a URL: one photo per page, named by where it  *)
(* came from, nothing past the last page, and nothing at all for the term  *)
(* StrNoMatch.                                                             *)
ServerPhotos(url) ==
    IF url.term # StrNoMatch /\ url.page <= ServerPages
    THEN << [endpoint |-> url.endpoint, term |-> url.term, page |-> url.page] >>
    ELSE << >>

(* Line 83: the parsed body; the search endpoint wraps the list. *)
ResponseBody(url) ==
    IF url.endpoint = "search/photos"
    THEN [results |-> ServerPhotos(url)]
    ELSE ServerPhotos(url)

(* Line 84. *)
Results(dq, data) == IF Truthy(dq) THEN data.results ELSE data

-----------------------------------------------------------------------------
(* The component's state as one record, for the handlers and effects.      *)
Cur ==
    [photos |-> photos, page |-> page, loading |-> loading, mode |-> mode,
     query |-> query, debouncedQuery |-> debouncedQuery, error |-> error,
     history |-> history, cache |-> cache, storage |-> storage,
     timers |-> timers, inflight |-> inflight,
     observerLoading |-> observerLoading, calls |-> << >>]

Put(f, k, v) == [x \in DOMAIN f \cup {k} |-> IF x = k THEN v ELSE f[x]]

(* Line 58. *)
CacheKey(dq, m) == OrElse(dq, m)

(* Line 59: cacheRef.current[cacheKey]?.[pageNum]. *)
CacheLookup(c, key, pageNum) ==
    IF key \in DOMAIN c /\ pageNum \in DOMAIN c[key]
    THEN Some(c[key][pageNum])
    ELSE None

(* Lines 86-87. *)
CacheStore(c, key, pageNum, results) ==
    LET inner == IF key \in DOMAIN c THEN c[key] ELSE << >>
    IN Put(c, key, Put(inner, pageNum, results))

NoKeyMsg == "No API key found."
DefaultMsg == "Something went wrong"

Snapshot(n) ==
    [photos |-> n.photos, loading |-> n.loading, error |-> n.error,
     inflight |-> n.inflight, cache |-> n.cache, history |-> n.history]

Request(r, pageNum, replace) ==
    [cacheKey |-> CacheKey(r.debouncedQuery, r.mode),
     url |-> Url(r.debouncedQuery, r.mode, pageNum),
     debouncedQuery |-> r.debouncedQuery,
     pageNum |-> pageNum,
     replace |-> replace]

(* A variant of CacheHit: loading is raised before the cache is consulted. *)
CacheHit_SetsLoading(n, cachedPage, replace) ==
    [n EXCEPT !.loading = TRUE,
              !.photos = IF replace THEN cachedPage ELSE n.photos \o cachedPage]

(* Lines 61-64: the cached page is shown and nothing else happens. *)
CacheHit(n, cachedPage, replace) ==
    [n EXCEPT !.photos = IF replace THEN cachedPage ELSE n.photos \o cachedPage]

(* Lines 66-81: up to the await of fetch. *)
StartFetch(r, n, pageNum, replace) ==
    [n EXCEPT !.loading = TRUE,
              !.error = None,
              !.inflight = n.inflight (+) SetToBag({Request(r, pageNum, replace)})]

(* Lines 52-81: getPhotos, called in the render r (whose mode and          *)
(* debouncedQuery it closes over), up to its first await; n is the state   *)
(* with the updates queued so far.                                         *)
GetPhotosSync(r, n, pageNum, replace) ==
    LET cacheKey == CacheKey(r.debouncedQuery, r.mode)
        cachedPage == CacheLookup(n.cache, cacheKey, pageNum)
    IN IF ~accessKey THEN [n EXCEPT !.error = Some(NoKeyMsg)]
       ELSE IF cachedPage # None THEN CacheHit(n, cachedPage[1], replace)
       ELSE StartFetch(r, n, pageNum, replace)

Outcome(n, cacheKey, pageNum) ==
    IF ~accessKey THEN "nokey"
    ELSE IF CacheLookup(n.cache, cacheKey, pageNum) # None THEN "hit"
    ELSE "fetch"

(* getPhotos with the call recorded. *)
GetPhotos(r, n, pageNum, replace) ==
    LET m == GetPhotosSync(r, n, pageNum, replace)
        cacheKey == CacheKey(r.debouncedQuery, r.mode)
    IN [m EXCEPT !.calls = Append(n.calls,
            [pageNum |-> pageNum, replace |-> replace,
             debouncedQuery |-> r.debouncedQuery, mode |-> r.mode,
             cacheKey |-> cacheKey,
             outcome |-> Outcome(n, cacheKey, pageNum),
             cachedPage |-> CacheLookup(n.cache, cacheKey, pageNum),
             before |-> Snapshot(n), after |-> Snapshot(m)])]

-----------------------------------------------------------------------------
(* The effects.  p is the previous render, r the render the effect belongs *)
(* to (it reads state from r), n the state with the updates queued so far  *)
(* (refs, timers and storage change at once).                              *)

(* Line 39: the cleanup clears the timer the previous run started. *)
ClearTimeout(ts, q) == ts \ {q}

(* Lines 35-40, on a change of query. *)
DebounceEffect(p, r, n) ==
    [n EXCEPT !.timers = ClearTimeout(n.timers, p.query) \cup {r.query}]

(* Lines 35-38, on mount: there is no previous timer. *)
DebounceMount(r, n) == [n EXCEPT !.timers = n.timers \cup {r.query}]

(* A variant of HistoryLoadEffect: the stored history is parsed only when  *)
(* the in-memory history has entries.                                      *)
HistoryLoadEffect_Skip(n) ==
    IF n.storage # None /\ Truthy(n.storage[1]) /\ n.history # << >>
    THEN [n EXCEPT !.history = JSONparse(n.storage[1])]
    ELSE n

(* Lines 42-45. *)
HistoryLoadEffect(n) ==
    IF n.storage # None /\ Truthy(n.storage[1])
    THEN [n EXCEPT !.history = JSONparse(n.storage[1])]
    ELSE n

(* Lines 47-49. *)
HistorySaveEffect(r, n) ==
    [n EXCEPT !.storage = Some(JSONstringify(r.history))]

(* Lines 106-110. *)
ResetEffect(r, n) ==
    GetPhotos(r, [n EXCEPT !.photos = << >>, !.page = 1], 1, TRUE)

(* Lines 112-126: the new observer's callback closes over r.loading. *)
ObserverEffect(r, n) == [n EXCEPT !.observerLoading = r.loading]

(* Lines 128-132. *)
PageEffect(r, n) ==
    IF r.page > 1 THEN GetPhotos(r, n, r.page, FALSE) ELSE n

(* getPhotos is a new function when mode or debouncedQuery changed (line 103). *)
GetPhotosChanged(p, r) ==
    p.mode # r.mode \/ p.debouncedQuery # r.debouncedQuery

(* The effects of one render, in declaration order, each run when one of   *)
(* its dependencies changed (all of them on mount).  Arrays set by the     *)
(* component are compared by value: re-running the save effect on an equal *)
(* history writes the same string.                                         *)
RunEffects(p, r, mount) ==
    LET n1 == IF mount THEN DebounceMount(r, r)
              ELSE IF p.query # r.query THEN DebounceEffect(p, r, r) ELSE r
        n2 == IF mount THEN HistoryLoadEffect(n1) ELSE n1
        n3 == IF mount \/ p.history # r.history
              THEN HistorySaveEffect(r, n2) ELSE n2
        n4 == IF mount \/ GetPhotosChanged(p, r) THEN ResetEffect(r, n3) ELSE n3
        n5 == IF mount \/ p.loading # r.loading THEN ObserverEffect(r, n4) ELSE n4
        n6 == IF mount \/ p.page # r.page \/ GetPhotosChanged(p, r)
              THEN PageEffect(r, n5) ELSE n5
    IN n6

Deps(s) == <<s.query, s.history, s.mode, s.debouncedQuery, s.loading, s.page>>

(* Render and run effects until a render changes no dependency. *)
RECURSIVE Settle(_, _)
Settle(p, r) ==
    IF Deps(p) = Deps(r) THEN r ELSE Settle(r, RunEffects(p, r, FALSE))

-----------------------------------------------------------------------------
(* Events.  For each event, the state once its handler, the renders and    *)
(* the effects it causes have run.                                         *)

(* The component mounts: every effect runs once, then the renders they cause. *)
AfterMount == Settle(Cur, RunEffects(Cur, Cur, TRUE))

(* Line 162: onChange of the search input. *)
AfterTypeQuery(q) == Settle(Cur, [Cur EXCEPT !.query = q])

(* A variant of FireTimer: the input is not trimmed. *)
FireTimer_NoTrim(n, t) ==
    [n EXCEPT !.debouncedQuery = t, !.timers = n.timers \ {t}]

(* Lines 36-38: the pending timer that captured query t fires. *)
FireTimer(n, t) ==
    [n EXCEPT !.debouncedQuery = Trim(t), !.timers = n.timers \ {t}]

AfterTimerFire(t) == Settle(Cur, FireTimer(Cur, t))

(* Lines 146, 152: a click on a mode button. *)
AfterSetMode(m) == Settle(Cur, [Cur EXCEPT !.mode = m])

(* Lines 134-137, 188: a click on an entry of the history list. *)
HistoryClick(n, term) == [n EXCEPT !.query = term, !.debouncedQuery = term]

AfterHistoryClick(term) == Settle(Cur, HistoryClick(Cur, term))

(* A variant of ObserverCallback: the callback does not look at loading. *)
ObserverCallback_NoLoadingCheck(n) == [n EXCEPT !.page = n.page + 1]

(* Lines 115-121: the observer reports the sentinel intersecting. *)
ObserverCallback(n) ==
    IF ~n.observerLoading THEN [n EXCEPT !.page = n.page + 1] ELSE n

AfterIntersect == Settle(Cur, ObserverCallback(Cur))

(* A variant of PushHistory: the earlier occurrence of the term is kept. *)
PushHistory_NoFilter(h, term) ==
    LET newHistory == <<term>> \o h
    IN SubSeq(newHistory, 1, IF Len(newHistory) < HistoryLimit
                             THEN Len(newHistory) ELSE HistoryLimit)

(* Lines 93-94. *)
PushHistory(h, term) ==
    LET newHistory == <<term>> \o SelectSeq(h, LAMBDA x : x # term)
    IN SubSeq(newHistory, 1, IF Len(newHistory) < HistoryLimit
                             THEN Len(newHistory) ELSE HistoryLimit)

(* A variant of ApplyResponse: a response whose key is no longer the       *)
(* current one is cached but not shown.                                    *)
ApplyResponse_DropStale(n, req) ==
    LET results == Results(req.debouncedQuery, ResponseBody(req.url))
        current == req.cacheKey = CacheKey(n.debouncedQuery, n.mode)
    IN [n EXCEPT
          !.cache = CacheStore(n.cache, req.cacheKey, req.pageNum, results),
          !.photos = IF ~current THEN n.photos
                     ELSE IF req.replace THEN results ELSE n.photos \o results,
          !.history = IF current /\ req.replace /\ Truthy(req.debouncedQuery)
                      THEN <<req.debouncedQuery>>
                           \o SelectSeq(n.history, LAMBDA x : x # req.debouncedQuery)
                      ELSE n.history,
          !.loading = FALSE,
          !.inflight = n.inflight (-) SetToBag({req})]

(* Lines 83-96 and 100: the response of request req arrives and parses. *)
ApplyResponse(n, req) ==
    LET data == ResponseBody(req.url)
        results == Results(req.debouncedQuery, data)
    IN [n EXCEPT
          !.cache = CacheStore(n.cache, req.cacheKey, req.pageNum, results),
          !.photos = IF req.replace THEN results ELSE n.photos \o results,
          !.history = IF req.replace /\ Truthy(req.debouncedQuery)
                      THEN PushHistory(n.history, req.debouncedQuery)
                      ELSE n.history,
          !.loading = FALSE,
          !.inflight = n.inflight (-) SetToBag({req})]

AfterRespondOk(req) == Settle(Cur, ApplyResponse(Cur, req))

(* Line 98. *)
ErrorMessage(message) == IF message # "" THEN message ELSE DefaultMsg

(* A variant of ApplyFailure: the list is emptied when a request fails. *)
ApplyFailure_ClearsPhotos(n, req, message) ==
    [n EXCEPT !.error = Some(ErrorMessage(message)),
              !.photos = << >>,
              !.loading = FALSE,
              !.inflight = n.inflight (-) SetToBag({req})]

(* Lines 97-101: fetch or res.json() throws an error with this message. *)
ApplyFailure(n, req, message) ==
    [n EXCEPT !.error = Some(ErrorMessage(message)),
              !.loading = FALSE,
              !.inflight = n.inflight (-) SetToBag({req})]

AfterRespondFail(req, message) == Settle(Cur, ApplyFailure(Cur, req, message))

FailMessages == {"", "Failed to fetch"}

-----------------------------------------------------------------------------
(* Actions. *)
WithinBounds(n) ==
    /\ n.page <= MaxPage
    /\ BagCardinality(n.inflight) <= maxInflight

CallSummary(c) ==
    [pageNum |-> c.pageNum, replace |-> c.replace,
     cacheKey |-> c.cacheKey, outcome |-> c.outcome]

CurrentKey == CacheKey(debouncedQuery, mode)

(* The step to the settled state n of an event of this type; failed is the *)
(* set of page numbers whose request failed in the event.                  *)
Commit(n, type, failed) ==
    /\ WithinBounds(n)
    /\ photos' = n.photos
    /\ page' = n.page
    /\ loading' = n.loading
    /\ mode' = n.mode
    /\ query' = n.query
    /\ debouncedQuery' = n.debouncedQuery
    /\ error' = n.error
    /\ history' = n.history
    /\ cache' = n.cache
    /\ storage' = n.storage
    /\ timers' = n.timers
    /\ inflight' = n.inflight
    /\ observerLoading' = n.observerLoading
    /\ mounted' = TRUE
    /\ last' = [type |-> type,
                calls |-> [i \in DOMAIN n.calls |-> CallSummary(n.calls[i])]]
    /\ failedPages' =
          IF n.mode # mode \/ n.debouncedQuery # debouncedQuery THEN {}
          ELSE failedPages \cup failed
    /\ UNCHANGED <<accessKey, inputs, maxInflight>>

Mount ==
    /\ ~mounted
    /\ Commit(AfterMount, "mount", {})

TypeQuery(q) ==
    /\ mounted
    /\ q # query
    /\ Commit(AfterTypeQuery(q), "type", {})

TimerFire(t) ==
    /\ mounted
    /\ t \in timers
    /\ Commit(AfterTimerFire(t), "timer", {})

(* A click on the active mode's button sets the state it has: nothing renders. *)
SetMode(m) ==
    /\ mounted
    /\ m # mode
    /\ Commit(AfterSetMode(m), "mode", {})

HandleHistoryClick(term) ==
    /\ mounted
    /\ Commit(AfterHistoryClick(term), "click", {})

Intersect ==
    /\ mounted
    /\ Commit(AfterIntersect, "intersect", {})

RespondOk(req) ==
    /\ BagIn(req, inflight)
    /\ Commit(AfterRespondOk(req), "ok", {})

RespondFail(req, message) ==
    /\ BagIn(req, inflight)
    /\ Commit(AfterRespondFail(req, message), "fail",
              IF req.cacheKey = CurrentKey THEN {req.pageNum} ELSE {})

UserOrTimer ==
    \/ Mount
    \/ \E q \in inputs : TypeQuery(q)
    \/ \E t \in timers : TimerFire(t)
    \/ \E m \in Modes : SetMode(m)
    \/ \E i \in 1..Len(history) : HandleHistoryClick(history[i])
    \/ Intersect

Next ==
    \/ UserOrTimer
    \/ \E req \in BagToSet(inflight) : RespondOk(req)
    \/ \E req \in BagToSet(inflight), message \in FailMessages : RespondFail(req, message)

(* The runs in which no request fails and nothing happens while a request  *)
(* is in flight but its response: no response is ever stale.               *)
Calm == inflight = EmptyBag

NextCalm ==
    \/ Calm /\ Mount
    \/ \E q \in inputs : Calm /\ TypeQuery(q)
    \/ \E t \in timers : Calm /\ TimerFire(t)
    \/ \E m \in Modes : Calm /\ SetMode(m)
    \/ \E i \in 1..Len(history) : Calm /\ HandleHistoryClick(history[i])
    \/ Calm /\ Intersect
    \/ \E req \in BagToSet(inflight) : RespondOk(req)

-----------------------------------------------------------------------------
(* Initial states: the state of the first render, before any effect. *)
InitState ==
    /\ photos = << >>
    /\ page = 1
    /\ loading = FALSE
    /\ mode = POPULAR
    /\ query = EmptyStr
    /\ debouncedQuery = EmptyStr
    /\ error = None
    /\ history = << >>
    /\ cache = << >>
    /\ timers = {}
    /\ inflight = EmptyBag
    /\ observerLoading = FALSE
    /\ mounted = FALSE
    /\ last = [type |-> "init", calls |-> << >>]
    /\ failedPages = {}

(* Feed and one search term, with and without an API key. *)
Init ==
    /\ InitState
    /\ accessKey \in BOOLEAN
    /\ storage = None
    /\ inputs = {EmptyStr, StrA}
    /\ maxInflight = MaxInflight

Spec == Init /\ [][Next]_vars

(* A stored history from an earlier session, whose terms need escaping. *)
StoredHistories == {<<StrQuote, StrB>>}

InitStored ==
    /\ InitState
    /\ accessKey = TRUE
    /\ storage \in {None} \cup {Some(JSONstringify(h)) : h \in StoredHistories}
    /\ inputs = {StrB}
    /\ maxInflight = NarrowInflight

SpecStored == InitStored /\ [][Next]_vars

(* A search term that reads like a mode. *)
InitCollide ==
    /\ InitState
    /\ accessKey = TRUE
    /\ storage = None
    /\ inputs = {EmptyStr, POPULAR}
    /\ maxInflight = NarrowInflight

SpecCollide == InitCollide /\ [][Next]_vars

(* A full stored history; the user searches a term it holds and a new one. *)
FullHistory == <<StrA, StrB, StrQuote, StrD, StrE>>

InitFull ==
    /\ InitState
    /\ accessKey = TRUE
    /\ storage \in {None, Some(JSONstringify(FullHistory))}
    /\ inputs = {StrB, StrG}
    /\ maxInflight = NarrowInflight

(* The runs in which the user searches, by typing and by clicking history *)
(* entries, and neither switches mode nor scrolls.                         *)
NextSearch ==
    \/ Mount
    \/ \E q \in inputs : TypeQuery(q)
    \/ \E t \in timers : TimerFire(t)
    \/ \E i \in 1..Len(history) : HandleHistoryClick(history[i])
    \/ \E req \in BagToSet(inflight) : RespondOk(req)
    \/ \E req \in BagToSet(inflight), message \in FailMessages : RespondFail(req, message)

SpecFull == InitFull /\ [][NextSearch]_vars

(* A search without results: every page of it is empty. *)
InitEnd ==
    /\ InitState
    /\ accessKey = TRUE
    /\ storage = None
    /\ inputs = {StrNoMatch}
    /\ maxInflight = NarrowInflight

SpecEnd == InitEnd /\ [][Next]_vars

(* A search term, typed with and without a trailing space, and a space alone. *)
InitSpace ==
    /\ InitState
    /\ accessKey = TRUE
    /\ storage = None
    /\ inputs = {StrA, StrASpace, StrSpace}
    /\ maxInflight = NarrowInflight

SpecSpace == InitSpace /\ [][Next]_vars

(* The runs in which every request succeeds before anything else happens. *)
InitCalm ==
    /\ InitState
    /\ accessKey = TRUE
    /\ storage = None
    /\ inputs = {EmptyStr, StrA}
    /\ maxInflight = MaxInflight

SpecCalm == InitCalm /\ [][NextCalm]_vars

-----------------------------------------------------------------------------
(* The getPhotos calls, with the state before and after each, that the     *)
(* events possible in the current state make.                              *)
EventResults ==
    IF ~mounted THEN {AfterMount}
    ELSE {AfterTypeQuery(q) : q \in inputs}
         \cup {AfterTimerFire(t) : t \in timers}
         \cup {AfterSetMode(m) : m \in Modes}
         \cup {AfterHistoryClick(history[i]) : i \in 1..Len(history)}
         \cup {AfterIntersect}
         \cup {AfterRespondOk(req) : req \in BagToSet(inflight)}
         \cup {AfterRespondFail(req, message) :
                 req \in BagToSet(inflight), message \in FailMessages}

PossibleCalls == UNION {{n.calls[i] : i \in DOMAIN n.calls} : n \in EventResults}

LastCalls == {last.calls[i] : i \in DOMAIN last.calls}

(* The calls among cs that load a page, from the network or the cache. *)
Loads(cs) == SelectSeq(cs, LAMBDA c : c.outcome # "nokey")

(* The photos of the pages 1..n of the feed or search that dq and m select. *)
RECURSIVE PagesUpTo(_, _, _)
PagesUpTo(dq, m, n) ==
    IF n = 0 THEN << >>
    ELSE PagesUpTo(dq, m, n - 1) \o ServerPhotos(Url(dq, m, n))

-----------------------------------------------------------------------------
(* C1: a getPhotos call that finds its page in the cache (API key present) *)
(* issues no request, leaves loading and error as they are, and sets       *)
(* photos to the cached page (replace) or to the previous photos followed  *)
(* by the cached page (append).                                            *)
C1_CacheHit ==
    \A c \in PossibleCalls :
        (accessKey /\ c.cachedPage # None) =>
            /\ c.after.inflight = c.before.inflight
            /\ c.after.loading = c.before.loading
            /\ c.after.error = c.before.error
            /\ c.after.photos = IF c.replace THEN c.cachedPage[1]
                                ELSE c.before.photos \o c.cachedPage[1]

(* An append from the cache has just happened and photos holds two pages. *)
C1_Witness ==
    /\ \E c \in LastCalls : c.outcome = "hit" /\ ~c.replace
    /\ Len(photos) >= 2
    /\ inflight = EmptyBag

(* C2: the page the cache holds for the current key and a page number is   *)
(* the response to a request for the current query (search) or, with no    *)
(* query, the current mode (feed).                                         *)
C2_KeyedByQueryMode ==
    \A pn \in 1..MaxPage :
        LET e == CacheLookup(cache, CurrentKey, pn)
        IN e # None => e[1] = ServerPhotos(Url(debouncedQuery, mode, pn))

(* C3: typing never changes debouncedQuery and starts no load; each change *)
(* of query leaves exactly the one timer that captured it; the timer sets  *)
(* debouncedQuery to the trimmed input.                                    *)
C3_TimerDiscipline ==
    [][/\ last'.type = "type" =>
            /\ debouncedQuery' = debouncedQuery
            /\ timers' = {query'}
            /\ last'.calls = << >>
       /\ last'.type = "timer" => debouncedQuery' = Trim(query)
       /\ Cardinality(timers') <= 1]_vars

(* C3: ... and the timer firing after a burst of keystrokes starts at most *)
(* one load.                                                               *)
C3_Debounce ==
    /\ C3_TimerDiscipline
    /\ [][last'.type = "timer" => Len(Loads(last'.calls)) <= 1]_vars

(* C4: the sentinel reported intersecting while loading is false adds      *)
(* exactly 1 to page and calls getPhotos once, for the new page, appending,*)
(* under the current key; while loading is true it changes nothing.        *)
C4_Sentinel ==
    [][last'.type = "intersect" =>
        IF ~loading
        THEN /\ page' = page + 1
             /\ Len(last'.calls) = 1
             /\ last'.calls[1].pageNum = page + 1
             /\ ~last'.calls[1].replace
             /\ last'.calls[1].cacheKey = CurrentKey
        ELSE /\ page' = page
             /\ last'.calls = << >>
             /\ inflight' = inflight
             /\ photos' = photos]_vars

(* The sentinel has just triggered the request of page 2. *)
C4_Witness ==
    /\ last.type = "intersect"
    /\ page = 2
    /\ \E c \in LastCalls : c.outcome = "fetch" /\ c.pageNum = 2
    /\ loading

(* C5: a response is applied to photos by its own replace flag whatever    *)
(* the current key is, and is cached under the key its request was issued  *)
(* for.                                                                    *)
C5_StaleApplied ==
    [][\A req \in BagToSet(inflight) :
         RespondOk(req) =>
            LET results == ServerPhotos(req.url)
            IN /\ photos' = IF req.replace THEN results ELSE photos \o results
               /\ CacheLookup(cache', req.url.term, req.pageNum) = Some(results)
               /\ \A k \in DOMAIN cache' \cup DOMAIN cache, pn \in 1..MaxPage :
                     <<k, pn>> # <<req.url.term, req.pageNum>> =>
                        CacheLookup(cache', k, pn) = CacheLookup(cache, k, pn)]_vars

(* A response has just arrived and photos holds a photo of another feed or *)
(* search than the current one.                                            *)
C5_Witness ==
    /\ last.type = "ok"
    /\ \E i \in 1..Len(photos) :
          <<photos[i].endpoint, photos[i].term>> #
             <<Url(debouncedQuery, mode, 1).endpoint, Url(debouncedQuery, mode, 1).term>>

(* C6: a failed request sets error to its message (or the default), sets   *)
(* loading to false and leaves photos, the cache and history alone; a call *)
(* without API key sets error to "No API key found." and nothing else.     *)
C6_NoKeyCalls ==
    \A c \in PossibleCalls :
        ~accessKey =>
            /\ c.after.error = Some("No API key found.")
            /\ c.after.inflight = c.before.inflight
            /\ c.after.loading = c.before.loading
            /\ c.after.photos = c.before.photos
            /\ c.after.cache = c.before.cache

C6_Failure ==
    /\ []C6_NoKeyCalls
    /\ [][\A req \in BagToSet(inflight), message \in FailMessages :
            RespondFail(req, message) =>
               /\ error' = Some(IF message = "" THEN "Something went wrong" ELSE message)
               /\ loading' = FALSE
               /\ photos' = photos
               /\ cache' = cache
               /\ history' = history]_vars

(* A request has just failed with an empty message while photos, the cache *)
(* and history were not empty.                                             *)
C6_Witness ==
    /\ last.type = "fail"
    /\ error = Some("Something went wrong")
    /\ photos # << >>
    /\ cache # << >>
    /\ history # << >>

(* C7: once mounted, the stored value is the JSON encoding of history; and *)
(* mounting over a stored history leaves the stored value as it was and    *)
(* makes history the history that was stored.                              *)
C7_Persistence ==
    /\ [](mounted => storage = Some(JSONstringify(history)))
    /\ [][(~mounted /\ mounted' /\ storage # None) =>
            /\ storage' = storage
            /\ \A h \in StoredHistories :
                  storage = Some(JSONstringify(h)) => history' = h]_vars

(* The component has just mounted over a stored history of two terms. *)
C7_Witness ==
    /\ last.type = "mount"
    /\ history = <<StrQuote, StrB>>
    /\ storage = Some(JSONstringify(<<StrQuote, StrB>>))

(* C8: a failure does not change page, and while mode and debouncedQuery   *)
(* stay as they are no request is issued for a page of the current key     *)
(* whose request failed.                                                   *)
C8_NoRetry ==
    [][/\ last'.type = "fail" => page' = page
       /\ (mode' = mode /\ debouncedQuery' = debouncedQuery) =>
             \A i \in DOMAIN last'.calls :
                 last'.calls[i].outcome = "fetch" =>
                     last'.calls[i].pageNum \notin failedPages]_vars

(* C9: a change of mode or debouncedQuery (API key present) clears photos, *)
(* sets page to 1 and starts exactly one load: page 1 of the new key,      *)
(* replacing.                                                              *)
C9_ResetOnSwitch ==
    [][(accessKey /\ (mode' # mode \/ debouncedQuery' # debouncedQuery)) =>
          /\ page' = 1
          /\ Len(Loads(last'.calls)) = 1
          /\ last'.calls[1].pageNum = 1
          /\ last'.calls[1].replace
          /\ last'.calls[1].cacheKey = CacheKey(debouncedQuery', mode')
          /\ photos' = IF last'.calls[1].outcome = "hit"
                       THEN cache[CacheKey(debouncedQuery', mode')][1]
                       ELSE << >>]_vars

(* C10: with no request in flight (and none ever failed), photos is the    *)
(* pages 1..page of the current feed or search, in order.                  *)
C10_Pagination ==
    (mounted /\ inflight = EmptyBag) =>
        photos = PagesUpTo(debouncedQuery, mode, page)

(* C11: once every request has settled, loading is false.                  *)
C11_SettledNotLoading == inflight = EmptyBag => ~loading

(* C11: loading is true while a request is in flight, also when requests   *)
(* overlap, so the sentinel's report does not change page while a request  *)
(* is outstanding; and loading is false once every request has settled.    *)
C11_LoadingAccurate ==
    /\ [](inflight # EmptyBag => loading)
    /\ [][(last'.type = "intersect" /\ inflight # EmptyBag) => page' = page]_vars
    /\ []C11_SettledNotLoading

(* A history as the component writes it: at most HistoryLimit terms, none  *)
(* twice, none empty.                                                      *)
WellFormed(h) ==
    /\ Len(h) <= HistoryLimit
    /\ \A i, j \in 1..Len(h) : h[i] = h[j] => i = j
    /\ \A i \in 1..Len(h) : h[i] # EmptyStr

Without(h, term) == SelectSeq(h, LAMBDA x : x # term)

IsPrefix(s, t) == Len(s) <= Len(t) /\ s = SubSeq(t, 1, Len(s))

(* C12: history always has at most 5 entries, no term twice and no empty   *)
(* term; and the response to a request for page 1 (replace) of a non-empty *)
(* query q makes q the first entry, followed by the other entries in the   *)
(* order they had.                                                         *)
C12_HistoryShape ==
    /\ []WellFormed(history)
    /\ [][\A req \in BagToSet(inflight) :
            (RespondOk(req) /\ req.replace /\ req.pageNum = 1
                            /\ req.debouncedQuery # EmptyStr) =>
               /\ history' # << >>
               /\ history'[1] = req.debouncedQuery
               /\ IsPrefix(Tail(history'), Without(history, req.debouncedQuery))]_vars

(* A response has just put StrB in front of a full history that held it,   *)
(* after the new term StrG had pushed the oldest entry out.                *)
C12_Witness ==
    /\ last.type = "ok"
    /\ history = <<StrB, StrG, StrA, StrQuote, StrD>>

(* C13: whenever page 1 of a non-empty debounced query q is loaded in      *)
(* replace mode, by the response to a request or from the cache, q becomes *)
(* the first entry of history.                                             *)
C13_HistoryRecords ==
    [][/\ \A req \in BagToSet(inflight) :
            (RespondOk(req) /\ req.replace /\ req.pageNum = 1
                            /\ req.debouncedQuery # EmptyStr) =>
               (history' # << >> /\ history'[1] = req.debouncedQuery)
       /\ \A i \in DOMAIN last'.calls :
            (/\ last'.calls[i].outcome = "hit"
             /\ last'.calls[i].replace
             /\ last'.calls[i].pageNum = 1
             /\ debouncedQuery' # EmptyStr) =>
               (history' # << >> /\ history'[1] = debouncedQuery')]_vars

(* The state is past the end of the results: the page last shown for the   *)
(* current key came back empty, and no request is in flight.               *)
PastTheEnd ==
    /\ mounted
    /\ inflight = EmptyBag
    /\ CacheLookup(cache, CurrentKey, page) = Some(<< >>)

(* C14: with no request in flight, the sentinel's report makes the         *)
(* component load the following page, whatever the pages before held.      *)
C14_NeverSettles ==
    (mounted /\ accessKey /\ inflight = EmptyBag) =>
        /\ AfterIntersect.page = page + 1
        /\ \E i \in DOMAIN AfterIntersect.calls :
              /\ AfterIntersect.calls[i].pageNum = page + 1
              /\ AfterIntersect.calls[i].outcome \in {"fetch", "hit"}

(* C14: once the API has returned an empty page for the current key and no *)
(* request is in flight, the sentinel still being in the viewport starts   *)
(* no further request: the requests for the key end there.                 *)
C14_EndOfResults ==
    PastTheEnd =>
        \A i \in DOMAIN AfterIntersect.calls :
            AfterIntersect.calls[i].outcome # "fetch"

(* C15: when the timer of a query whose trimmed value is the current       *)
(* debouncedQuery fires, debouncedQuery, photos, page, the cache and       *)
(* history stay as they are and no load is started.                        *)
C15_WhitespaceInert ==
    [][\A t \in timers :
         (TimerFire(t) /\ Trim(t) = debouncedQuery) =>
            /\ debouncedQuery' = debouncedQuery
            /\ photos' = photos
            /\ page' = page
            /\ cache' = cache
            /\ history' = history
            /\ inflight' = inflight
            /\ last'.calls = << >>]_vars

(* The timer of the query "a " has just fired while "a" was the debounced  *)
(* query and its photos were shown, and no getPhotos call was made.        *)
C15_Witness ==
    /\ last.type = "timer"
    /\ last.calls = << >>
    /\ query = StrASpace
    /\ debouncedQuery = StrA
    /\ photos # << >>
    /\ history = <<StrA>>

(* C16: a click on a history term t other than the current debounced query *)
(* (API key present) sets query and debouncedQuery to t, leaves the timer  *)
(* of t as the only pending timer and loads page 1 of t, replacing; and    *)
(* the timer of t firing while t is the debounced query changes nothing    *)
(* and starts no load.                                                     *)
C16_ClickAndTimer ==
    [][/\ \A i \in 1..Len(history) :
            (/\ HandleHistoryClick(history[i])
             /\ last'.type = "click"
             /\ history[i] # debouncedQuery
             /\ accessKey) =>
               /\ query' = history[i]
               /\ debouncedQuery' = history[i]
               /\ timers' = {history[i]}
               /\ last'.calls # << >>
               /\ last'.calls[1].pageNum = 1
               /\ last'.calls[1].replace
               /\ last'.calls[1].cacheKey = history[i]
       /\ \A t \in timers :
            (TimerFire(t) /\ t = query /\ t = debouncedQuery) =>
               /\ debouncedQuery' = debouncedQuery
               /\ photos' = photos
               /\ page' = page
               /\ inflight' = inflight
               /\ last'.calls = << >>]_vars

(* C16: ... and the load of page 1 is the only load the click starts.      *)
C16_ClickBypasses ==
    /\ C16_ClickAndTimer
    /\ [][(/\ last'.type = "click"
           /\ debouncedQuery' # debouncedQuery
           /\ accessKey) => Len(Loads(last'.calls)) = 1]_vars

=============================================================================
